---- MODULE Spec2Model ----
(***************************************************************************)
(* Audio assembly engine of the Urdu podcast generator.                    *)
(*                                                                         *)
(* The module models src/utils/audio_basic.py:                             *)
(*   _build_wav, _extract_wav_pcm  byte-exact WAV writer and parser        *)
(*   _tts_turn                     one TTS request and its outcomes        *)
(*   synthesize_episode_basic      the per-turn loop of one job            *)
(* Buffers are sequences of bytes (0..255); a text is a sequence of        *)
(* one-character strings.                                                  *)
(***************************************************************************)
EXTENDS Integers, Sequences, FiniteSets, TLC

\* ------------------------------------------------------------------ bounds
\* Longest script of a job.
MaxTurns == 3
\* Longest payload, in frames, of the writer/parser round trip.
MaxFrames == 2

\* --------------------------------------------------------------- constants
\* Python's None for sr / channels / bps (an unpacked field is never negative).
None == -1
\* len(payload) < 44 in _extract_wav_pcm.
MinWavLen == 44
\* offset = 12: the first sub-chunk follows 'RIFF' <size> 'WAVE'.
FirstChunkOffset == 12
\* r.status_code != 200 in _tts_turn.
HttpOk == 200

\* -------------------------------------------------------------- byte tools
RECURSIVE Concat(_)
\* b''.join(chunks)
Concat(chunks) ==
    IF chunks = << >> THEN << >> ELSE Head(chunks) \o Concat(Tail(chunks))

\* b'\x00' * n
Zeros(n) == [i \in 1..n |-> 0]

\* payload[lo:hi] with Python's clamping of the slice to the buffer.
Slice(b, lo, hi) ==
    LET h == IF hi > Len(b) THEN Len(b) ELSE hi
    IN  IF lo >= h THEN << >> ELSE [i \in 1..(h - lo) |-> b[lo + i]]

\* struct.pack('<H', n) and struct.pack('<I', n), n within the field's range.
LE16(n) == << n % 256, (n \div 256) % 256 >>
LE32(n) == << n % 256, (n \div 256) % 256,
              (n \div 65536) % 256, (n \div 16777216) % 256 >>

\* struct.unpack('<H', b[off:off+2])[0] and struct.unpack('<I', b[off:off+4])[0]
U16(b, off) == b[off + 1] + 256 * b[off + 2]
U32(b, off) == b[off + 1] + 256 * b[off + 2]
               + 65536 * b[off + 3] + 16777216 * b[off + 4]

\* The four-byte tags, as ASCII codes.
TagRIFF == << 82, 73, 70, 70 >>
TagWAVE == << 87, 65, 86, 69 >>
TagFmt  == << 102, 109, 116, 32 >>
TagData == << 100, 97, 116, 97 >>
TagLIST == << 76, 73, 83, 84 >>
TagID3  == << 73, 68, 51 >>

\* ------------------------------------------------------------ _build_wav
\* Variant of the writer that declares the length of the whole buffer as
\* the container size.
BuildWav_TotalLength(pcm, sample_rate, channels_, bits_per_sample) ==
    LET byte_rate       == (sample_rate * channels_ * bits_per_sample) \div 8
        block_align     == (channels_ * bits_per_sample) \div 8
        data_size       == Len(pcm)
        riff_chunk_size == 44 + data_size
        header ==
            TagRIFF \o LE32(riff_chunk_size) \o TagWAVE
            \o TagFmt \o LE32(16) \o LE16(1) \o LE16(channels_)
            \o LE32(sample_rate) \o LE32(byte_rate) \o LE16(block_align)
            \o LE16(bits_per_sample)
            \o TagData \o LE32(data_size)
    IN  header \o pcm

BuildWav(pcm, sample_rate, channels_, bits_per_sample) ==
    LET byte_rate       == (sample_rate * channels_ * bits_per_sample) \div 8
        block_align     == (channels_ * bits_per_sample) \div 8
        data_size       == Len(pcm)
        riff_chunk_size == 36 + data_size
        header ==
            TagRIFF \o LE32(riff_chunk_size) \o TagWAVE
            \o TagFmt \o LE32(16) \o LE16(1) \o LE16(channels_)
            \o LE32(sample_rate) \o LE32(byte_rate) \o LE16(block_align)
            \o LE16(bits_per_sample)
            \o TagData \o LE32(data_size)
    IN  header \o pcm

\* -------------------------------------------------------- _extract_wav_pcm
\* The scan of lines 46-55: the offset of the data sub-chunk's tag, or None
\* when the loop ends without finding one.
RECURSIVE FindDataChunk(_, _)
FindDataChunk(payload, offset) ==
    IF offset < Len(payload) - 8
    THEN LET chunk_id   == Slice(payload, offset, offset + 4)
             chunk_size == U32(payload, offset + 4)
         IN  IF chunk_id = TagData
             THEN offset
             ELSE FindDataChunk(payload, offset + 8 + chunk_size)
    ELSE None

\* bytes.hex(): two lower-case hexadecimal digits per byte.
HexDigits == << "0", "1", "2", "3", "4", "5", "6", "7",
                "8", "9", "a", "b", "c", "d", "e", "f" >>

RECURSIVE Hex(_)
Hex(b) ==
    IF b = << >> THEN << >>
    ELSE << HexDigits[(Head(b) \div 16) + 1], HexDigits[(Head(b) % 16) + 1] >>
         \o Hex(Tail(b))

ParseError(reason, preview) ==
    [ok |-> FALSE, reason |-> reason, preview |-> preview,
     pcm |-> << >>, sample_rate |-> None, channels |-> None, bits |-> None]

\* Variant of the parser without the test of the form tag.
ExtractWavPcm_NoFormTag(payload) ==
    IF \/ Len(payload) < MinWavLen
       \/ Slice(payload, 0, 4) # TagRIFF
    THEN ParseError("Unexpected WAV header", Hex(Slice(payload, 0, 12)))
    ELSE LET ch    == U16(payload, 22)
             srate == U32(payload, 24)
             bits  == U16(payload, 34)
             at    == FindDataChunk(payload, FirstChunkOffset)
         IN  IF at = None
             THEN ParseError("No data chunk found in WAV", << >>)
             ELSE [ok |-> TRUE, reason |-> "", preview |-> << >>,
                   pcm |-> Slice(payload, at + 8,
                                 at + 8 + U32(payload, at + 4)),
                   sample_rate |-> srate, channels |-> ch, bits |-> bits]

\* Variant of the parser that takes the sample rate from the byte-rate field.
ExtractWavPcm_RateAt28(payload) ==
    IF \/ Len(payload) < MinWavLen
       \/ Slice(payload, 0, 4) # TagRIFF
       \/ Slice(payload, 8, 12) # TagWAVE
    THEN ParseError("Unexpected WAV header", Hex(Slice(payload, 0, 12)))
    ELSE LET ch    == U16(payload, 22)
             srate == U32(payload, 28)
             bits  == U16(payload, 34)
             at    == FindDataChunk(payload, FirstChunkOffset)
         IN  IF at = None
             THEN ParseError("No data chunk found in WAV", << >>)
             ELSE [ok |-> TRUE, reason |-> "", preview |-> << >>,
                   pcm |-> Slice(payload, at + 8,
                                 at + 8 + U32(payload, at + 4)),
                   sample_rate |-> srate, channels |-> ch, bits |-> bits]

ExtractWavPcm(payload) ==
    IF \/ Len(payload) < MinWavLen
       \/ Slice(payload, 0, 4) # TagRIFF
       \/ Slice(payload, 8, 12) # TagWAVE
    THEN ParseError("Unexpected WAV header", Hex(Slice(payload, 0, 12)))
    ELSE LET ch    == U16(payload, 22)
             srate == U32(payload, 24)
             bits  == U16(payload, 34)
             at    == FindDataChunk(payload, FirstChunkOffset)
         IN  IF at = None
             THEN ParseError("No data chunk found in WAV", << >>)
             ELSE [ok |-> TRUE, reason |-> "", preview |-> << >>,
                   pcm |-> Slice(payload, at + 8,
                                 at + 8 + U32(payload, at + 4)),
                   sample_rate |-> srate, channels |-> ch, bits |-> bits]

\* Variant of the signature test that accepts every non-empty body.
IsMp3_AnyBody(mp3_bytes) == mp3_bytes # << >>

\* The stream-signature test of line 155.
IsMp3(mp3_bytes) ==
    \/ Slice(mp3_bytes, 0, 3) = TagID3
    \/ Slice(mp3_bytes, 0, 2) \in { <<255, 251>>, <<255, 243>>, <<255, 242>> }

\* ------------------------------------------------------------------ inputs
RECURSIVE LStrip(_)
LStrip(t) == IF t # << >> /\ Head(t) = " " THEN LStrip(Tail(t)) ELSE t

RECURSIVE RStrip(_)
RStrip(t) ==
    IF t # << >> /\ t[Len(t)] = " " THEN RStrip(SubSeq(t, 1, Len(t) - 1)) ELSE t

\* str.strip() of line 120
Strip(t) == RStrip(LStrip(t))

\* The turns a script is made of: two spoken turns, a whitespace-only turn
\* and an empty one.
TurnKinds ==
    { [speaker |-> "host",  text |-> << "H", "i" >>],
      [speaker |-> "guest", text |-> << " ", "Y", "o", " " >>],
      [speaker |-> "guest", text |-> << " " >>],
      [speaker |-> "host",  text |-> << >>] }

Scripts == UNION { [1..n -> TurnKinds] : n \in 0..MaxTurns }

\* pause_ms values of a job.
Pauses == {0, 500}

host_voice_id  == "voice-host"
guest_voice_id == "voice-guest"

\* --------------------------------------------------------------- provider
\* What the provider can answer to the request of turn i.  The audio of a
\* turn is tagged with the turn's index so that it is recognisable in the
\* output; non-zero bytes keep it apart from silence.
TurnPcm(i) == << i, 100 + i >>

\* Two raw formats (sample rate, channels, bits per sample), both with a
\* frame of two bytes.
FmtA == << 4, 1, 16 >>
FmtB == << 8, 2, 8 >>

WavOf(pcm, fmt) == BuildWav(pcm, fmt[1], fmt[2], fmt[3])

\* A raw container with a LIST sub-chunk between 'fmt ' and 'data'.
WavWithList(pcm, fmt) ==
    LET w    == WavOf(pcm, fmt)
        list == TagLIST \o LE32(2) \o << 9, 9 >>
    IN  TagRIFF \o LE32(36 + Len(list) + Len(pcm)) \o Slice(w, 8, 36)
        \o list \o Slice(w, 36, Len(w))

Mp3Id3(i)   == TagID3 \o << 4, i >>
Mp3Frame(i) == << 255, 251, i >>
NotAudio(i) == << 123, 34, i >>

Timeout == [kind |-> "timeout", status |-> 0, body |-> << >>]
Http(status, body) == [kind |-> "http", status |-> status, body |-> body]

\* Answers to a request with accept: audio/wav.
WavResponses(i) ==
    { Timeout, Http(500, NotAudio(i)),
      Http(HttpOk, WavOf(TurnPcm(i), FmtA)),
      Http(HttpOk, WavOf(TurnPcm(i), FmtB)),
      Http(HttpOk, WavWithList(TurnPcm(i), FmtA)),
      Http(HttpOk, WavOf(<< i >>, FmtA)),
      Http(HttpOk, Mp3Id3(i)) }

\* Answers to a request with accept: audio/mpeg.
Mp3Responses(i) ==
    { Timeout, Http(500, NotAudio(i)),
      Http(HttpOk, Mp3Id3(i)),
      Http(HttpOk, Mp3Frame(i)),
      Http(HttpOk, NotAudio(i)) }

\* ------------------------------------------------------------------- state
VARIABLES
    script, prefer_wav, pause_ms,    \* arguments of the job
    pc,                              \* position in synthesize_episode_basic
    idx,                             \* loop index (1-based)
    pcm_chunks, mp3_segments,        \* the two accumulation lists
    sr, channels, bps,               \* the job's format, None until adopted
    using_mp3,                       \* the mode flag
    silence_frames,                  \* the silence template
    result,                          \* what the call returns or raises
    requests,                        \* TTS requests issued, in order
    responses,                       \* the answer to each request, in order
    parser_calls,                    \* turns on which _extract_wav_pcm ran
    writer_calls,                    \* number of _build_wav calls
    progress,                        \* percents given to progress_callback
    caught,                          \* the BasicAudioError caught at line 146
    pcm_src, mp3_src,                \* turn of each list element (0: silence)
    codec,                           \* writer/parser harness
    events,                          \* callbacks, requests and sleeps, in order
    attempt,                         \* retry counter of _synthesize_single_line
    final_audio,                     \* the track built by synthesize_episode
    parked,                          \* the frame of the call not running now
    active                           \* the call whose frame the locals are

vars == << script, prefer_wav, pause_ms, pc, idx, pcm_chunks, mp3_segments,
           sr, channels, bps, using_mp3, silence_frames, result, requests,
           responses, parser_calls, writer_calls, progress, caught, pcm_src,
           mp3_src, codec, events, attempt, final_audio, parked, active >>

jobArgs  == << script, prefer_wav, pause_ms >>
jobState == << pc, idx, pcm_chunks, mp3_segments, sr, channels, bps,
               using_mp3, silence_frames, result, requests, responses,
               parser_calls, writer_calls, progress, caught, pcm_src,
               mp3_src, events >>
otherCall == << parked, active >>
epState  == << attempt, final_audio, otherCall >>

\* One observable call: a progress callback (n: the percent), a TTS request
\* (n: 1 for a raw request, 0 for a stream request) or a sleep (n: seconds).
EvProgress(turn, percent) == [kind |-> "progress", turn |-> turn, n |-> percent]
EvRequest(turn, want_wav) ==
    [kind |-> "request", turn |-> turn, n |-> IF want_wav THEN 1 ELSE 0]
EvSleep(turn, seconds) == [kind |-> "sleep", turn |-> turn, n |-> seconds]

NoResult == [status |-> "none", bytes |-> << >>, ext |-> "", error |-> ""]
Returned(bytes, ext) ==
    [status |-> "ok", bytes |-> bytes, ext |-> ext, error |-> ""]
Raised(error) ==
    [status |-> "error", bytes |-> << >>, ext |-> "", error |-> error]

NoCatch == [turn |-> 0, reason |-> ""]
CodecIdle == [stage |-> "idle", pcm |-> << >>, fmt |-> << 0, 0, 0 >>,
              buf |-> << >>, out |-> ParseError("", << >>),
              chunks |-> << >>, damage |-> "none", pause |-> 0, len |-> 0,
              offset |-> 0]

total_turns == Len(script)

\* Lines 95-117: what one call of synthesize_episode_basic owns, its
\* arguments and locals (with what the call was seen to do).
NewFrame(scr, pref, pause) ==
    [script |-> scr, prefer_wav |-> pref, pause_ms |-> pause,
     pc |-> "start", idx |-> 1, pcm_chunks |-> << >>, mp3_segments |-> << >>,
     sr |-> None, channels |-> None, bps |-> None, using_mp3 |-> FALSE,
     silence_frames |-> << >>, result |-> NoResult, requests |-> << >>,
     responses |-> << >>, parser_calls |-> << >>, writer_calls |-> 0,
     progress |-> << >>, caught |-> NoCatch, pcm_src |-> << >>,
     mp3_src |-> << >>, events |-> << >>]

NoFrame == NewFrame(<< >>, TRUE, 0)

\* The frame of the running call.
CurrentFrame ==
    [script |-> script, prefer_wav |-> prefer_wav, pause_ms |-> pause_ms,
     pc |-> pc, idx |-> idx, pcm_chunks |-> pcm_chunks,
     mp3_segments |-> mp3_segments, sr |-> sr, channels |-> channels,
     bps |-> bps, using_mp3 |-> using_mp3,
     silence_frames |-> silence_frames, result |-> result,
     requests |-> requests, responses |-> responses,
     parser_calls |-> parser_calls, writer_calls |-> writer_calls,
     progress |-> progress, caught |-> caught, pcm_src |-> pcm_src,
     mp3_src |-> mp3_src, events |-> events]

\* A single call: no other frame exists.
OneCall == active = 1 /\ parked = NoFrame

\* Lines 110-117: the locals of a fresh call.
JobLocalsInit ==
    /\ pc = "start"
    /\ idx = 1
    /\ pcm_chunks = << >>
    /\ mp3_segments = << >>
    /\ sr = None /\ channels = None /\ bps = None
    /\ using_mp3 = FALSE
    /\ silence_frames = << >>
    /\ result = NoResult
    /\ requests = << >>
    /\ responses = << >>
    /\ parser_calls = << >>
    /\ writer_calls = 0
    /\ progress = << >>
    /\ caught = NoCatch
    /\ pcm_src = << >>
    /\ mp3_src = << >>
    /\ events = << >>
    /\ attempt = 0
    /\ final_audio = << >>

Init ==
    /\ script \in Scripts
    /\ prefer_wav \in BOOLEAN
    /\ pause_ms \in Pauses
    /\ JobLocalsInit
    /\ codec = CodecIdle
    /\ OneCall

\* ------------------------------------------------- synthesize_episode_basic
\* Variant of the percent that runs to 100 at the last turn.
Percent_Full(i, n) == (i * 100) \div n

\* int(((idx-1)/total_turns)*90); the float result equals the exact floor
\* for every script of up to 6 turns.
Percent(i, n) == ((i - 1) * 90) \div n

\* int(sr * (pause_ms / 1000.0)) frames of frame_size zero bytes; the float
\* product truncates to the exact floor for the rates and pauses used here.
SilenceLen(srate, ch, bits, pause) ==
    LET bytes_per_sample == bits \div 8
        frame_size       == ch * bytes_per_sample
        silence_samples  == (srate * pause) \div 1000
    IN  silence_samples * frame_size

SilenceFor(srate, ch, bits, pause) ==
    Zeros(SilenceLen(srate, ch, bits, pause))

VoiceOf(turn) ==
    IF turn.speaker = "host" THEN host_voice_id ELSE guest_voice_id

Request(i, want_wav) ==
    [turn |-> i, want_wav |-> want_wav, voice |-> VoiceOf(script[i])]

Fail(error) ==
    /\ pc' = "failed"
    /\ result' = Raised(error)

\* Lines 104-105 and the entry into the loop.
Start ==
    /\ pc = "start"
    /\ IF script = << >>
       THEN Fail("BasicAudioError: Empty script")
       ELSE pc' = "loop" /\ result' = result
    /\ UNCHANGED << jobArgs, idx, pcm_chunks, mp3_segments, sr, channels, bps,
                    using_mp3, silence_frames, requests, responses,
                    parser_calls, writer_calls, progress, caught, pcm_src,
                    mp3_src, codec, epState, events >>

\* Lines 119-122: a turn whose stripped text is empty is skipped.
SkipTurn ==
    /\ pc = "loop"
    /\ idx <= total_turns
    /\ Strip(script[idx].text) = << >>
    /\ idx' = idx + 1
    /\ UNCHANGED << jobArgs, pc, pcm_chunks, mp3_segments, sr, channels, bps,
                    using_mp3, silence_frames, result, requests, responses,
                    parser_calls, writer_calls, progress, caught, pcm_src,
                    mp3_src, codec, epState, events >>

\* Variant of line 129 that does not look at the mode flag.
TryWav_IgnoreMode == prefer_wav

\* Line 129: the raw request is tried while the job is in raw mode.
TryWav == prefer_wav /\ ~using_mp3

\* Variant of the turn's start with the mode flag reset on every iteration.
BeginTurn_ResetMode ==
    /\ pc = "loop"
    /\ idx <= total_turns
    /\ Strip(script[idx].text) # << >>
    /\ progress' = Append(progress, Percent(idx, total_turns))
    /\ using_mp3' = FALSE
    /\ IF prefer_wav
       THEN /\ requests' = Append(requests, Request(idx, TRUE))
            /\ events' = events \o << EvProgress(idx, Percent(idx, total_turns)),
                                      EvRequest(idx, TRUE) >>
            /\ pc' = "wav_wait"
       ELSE /\ requests' = Append(requests, Request(idx, FALSE))
            /\ events' = events \o << EvProgress(idx, Percent(idx, total_turns)),
                                      EvRequest(idx, FALSE) >>
            /\ pc' = "mp3_wait"
    /\ UNCHANGED << jobArgs, idx, pcm_chunks, mp3_segments, sr, channels, bps,
                    silence_frames, result, responses, parser_calls,
                    writer_calls, caught, pcm_src, mp3_src, codec,
                    epState >>

\* Variant of the turn's start that reports progress after the request.
BeginTurn_CallFirst ==
    /\ pc = "loop"
    /\ idx <= total_turns
    /\ Strip(script[idx].text) # << >>
    /\ progress' = Append(progress, Percent(idx, total_turns))
    /\ IF TryWav
       THEN /\ requests' = Append(requests, Request(idx, TRUE))
            /\ events' = events \o << EvRequest(idx, TRUE),
                                      EvProgress(idx, Percent(idx, total_turns)) >>
            /\ pc' = "wav_wait"
       ELSE /\ requests' = Append(requests, Request(idx, FALSE))
            /\ events' = events \o << EvRequest(idx, FALSE),
                                      EvProgress(idx, Percent(idx, total_turns)) >>
            /\ pc' = "mp3_wait"
    /\ UNCHANGED << jobArgs, idx, pcm_chunks, mp3_segments, sr, channels, bps,
                    using_mp3, silence_frames, result, responses,
                    parser_calls, writer_calls, caught, pcm_src, mp3_src,
                    codec, epState >>

\* Lines 123-131 / 153: progress, then the turn's first request is sent.
BeginTurn ==
    /\ pc = "loop"
    /\ idx <= total_turns
    /\ Strip(script[idx].text) # << >>
    /\ progress' = Append(progress, Percent(idx, total_turns))
    /\ IF TryWav
       THEN /\ requests' = Append(requests, Request(idx, TRUE))
            /\ events' = events \o << EvProgress(idx, Percent(idx, total_turns)),
                                      EvRequest(idx, TRUE) >>
            /\ pc' = "wav_wait"
       ELSE /\ requests' = Append(requests, Request(idx, FALSE))
            /\ events' = events \o << EvProgress(idx, Percent(idx, total_turns)),
                                      EvRequest(idx, FALSE) >>
            /\ pc' = "mp3_wait"
    /\ UNCHANGED << jobArgs, idx, pcm_chunks, mp3_segments, sr, channels, bps,
                    using_mp3, silence_frames, result, responses,
                    parser_calls, writer_calls, caught, pcm_src, mp3_src,
                    codec, epState >>

\* Lines 146-153: the except clause, then the stream request of the same turn.
Downgrade(reason) ==
    /\ using_mp3' = TRUE
    /\ caught' = [turn |-> idx, reason |-> reason]
    /\ progress' = Append(progress, Percent(idx, total_turns))
    /\ requests' = Append(requests, Request(idx, FALSE))
    /\ events' = events \o << EvProgress(idx, Percent(idx, total_turns)),
                              EvRequest(idx, FALSE) >>
    /\ pc' = "mp3_wait"
    /\ UNCHANGED << idx, pcm_chunks, pcm_src, sr, channels, bps,
                    silence_frames, result >>

\* Line 90 raises requests' Timeout, which line 146 does not catch.
WavTimeout ==
    /\ pc = "wav_wait"
    /\ Timeout \in WavResponses(idx)
    /\ responses' = Append(responses, Timeout)
    /\ Fail("RequestException")
    /\ UNCHANGED << jobArgs, idx, pcm_chunks, mp3_segments, sr, channels, bps,
                    using_mp3, silence_frames, requests, parser_calls,
                    writer_calls, progress, caught, pcm_src, mp3_src, codec,
                    epState, events >>

\* Lines 91-92 and 131-150: the answer to the raw request.
WavResponse ==
    /\ pc = "wav_wait"
    /\ \E r \in WavResponses(idx) :
        /\ r.kind = "http"
        /\ responses' = Append(responses, r)
        /\ IF r.status # HttpOk
           THEN /\ Downgrade("ElevenLabs TTS failed")
                /\ parser_calls' = parser_calls
           ELSE LET p == ExtractWavPcm(r.body) IN
                /\ parser_calls' = Append(parser_calls, idx)
                /\ IF ~p.ok
                   THEN Downgrade(p.reason)
                   ELSE IF sr # None
                           /\ << p.sample_rate, p.channels, p.bits >>
                                # << sr, channels, bps >>
                   THEN Downgrade("Inconsistent audio format")
                   ELSE LET sil == IF sr = None
                                   THEN SilenceFor(p.sample_rate, p.channels,
                                                   p.bits, pause_ms)
                                   ELSE silence_frames
                        IN  /\ sr' = p.sample_rate
                            /\ channels' = p.channels
                            /\ bps' = p.bits
                            /\ silence_frames' = sil
                            /\ IF idx # total_turns
                               THEN /\ pcm_chunks' = pcm_chunks \o << p.pcm, sil >>
                                    /\ pcm_src' = pcm_src \o << idx, 0 >>
                               ELSE /\ pcm_chunks' = Append(pcm_chunks, p.pcm)
                                    /\ pcm_src' = Append(pcm_src, idx)
                            /\ idx' = idx + 1
                            /\ pc' = "loop"
                            /\ UNCHANGED << using_mp3, caught, progress,
                                            requests, result, events >>
    /\ UNCHANGED << jobArgs, mp3_segments, mp3_src, writer_calls, codec,
                    epState >>

\* Line 153 raises requests' Timeout outside any try.
Mp3Timeout ==
    /\ pc = "mp3_wait"
    /\ Timeout \in Mp3Responses(idx)
    /\ responses' = Append(responses, Timeout)
    /\ Fail("RequestException")
    /\ UNCHANGED << jobArgs, idx, pcm_chunks, mp3_segments, sr, channels, bps,
                    using_mp3, silence_frames, requests, parser_calls,
                    writer_calls, progress, caught, pcm_src, mp3_src, codec,
                    epState, events >>

\* Lines 153-158: the answer to the stream request.
Mp3Response ==
    /\ pc = "mp3_wait"
    /\ \E r \in Mp3Responses(idx) :
        /\ r.kind = "http"
        /\ responses' = Append(responses, r)
        /\ IF r.status # HttpOk
           THEN /\ Fail("BasicAudioError: ElevenLabs TTS failed")
                /\ UNCHANGED << idx, mp3_segments, mp3_src >>
           ELSE IF ~IsMp3(r.body)
           THEN /\ Fail("BasicAudioError: Unexpected MP3 fallback bytes")
                /\ UNCHANGED << idx, mp3_segments, mp3_src >>
           ELSE /\ mp3_segments' = Append(mp3_segments, r.body)
                /\ mp3_src' = Append(mp3_src, idx)
                /\ idx' = idx + 1
                /\ pc' = "loop"
                /\ result' = result
    /\ UNCHANGED << jobArgs, pcm_chunks, sr, channels, bps, using_mp3,
                    silence_frames, requests, parser_calls, writer_calls,
                    progress, caught, pcm_src, codec, epState, events >>

\* Variant of the end of the job that chooses the output by the caller's
\* preference instead of the mode flag.
Finish_ByPreference ==
    /\ pc = "loop"
    /\ idx > total_turns
    /\ IF ~prefer_wav
       THEN /\ progress' = progress \o << 95, 100 >>
            /\ events' = events \o << EvProgress(0, 95), EvProgress(0, 100) >>
            /\ result' = Returned(Concat(mp3_segments), "mp3")
            /\ pc' = "done"
            /\ writer_calls' = writer_calls
       ELSE /\ writer_calls' = writer_calls + 1
            /\ IF sr = None
               THEN \* None * None in _build_wav
                    /\ Fail("TypeError")
                    /\ progress' = progress
                    /\ events' = events
               ELSE /\ progress' = progress \o << 95, 100 >>
                    /\ events' = events \o << EvProgress(0, 95),
                                              EvProgress(0, 100) >>
                    /\ result' = Returned(
                           BuildWav(Concat(pcm_chunks), sr, channels, bps),
                           "wav")
                    /\ pc' = "done"
    /\ UNCHANGED << jobArgs, idx, pcm_chunks, mp3_segments, sr, channels, bps,
                    using_mp3, silence_frames, requests, responses,
                    parser_calls, caught, pcm_src, mp3_src, codec, epState >>

\* Lines 160-176: after the loop.
Finish ==
    /\ pc = "loop"
    /\ idx > total_turns
    /\ IF using_mp3
       THEN /\ progress' = progress \o << 95, 100 >>
            /\ events' = events \o << EvProgress(0, 95), EvProgress(0, 100) >>
            /\ result' = Returned(Concat(mp3_segments), "mp3")
            /\ pc' = "done"
            /\ writer_calls' = writer_calls
       ELSE /\ writer_calls' = writer_calls + 1
            /\ IF sr = None
               THEN \* None * None in _build_wav
                    /\ Fail("TypeError")
                    /\ progress' = progress
                    /\ events' = events
               ELSE /\ progress' = progress \o << 95, 100 >>
                    /\ events' = events \o << EvProgress(0, 95),
                                              EvProgress(0, 100) >>
                    /\ result' = Returned(
                           BuildWav(Concat(pcm_chunks), sr, channels, bps),
                           "wav")
                    /\ pc' = "done"
    /\ UNCHANGED << jobArgs, idx, pcm_chunks, mp3_segments, sr, channels, bps,
                    using_mp3, silence_frames, requests, responses,
                    parser_calls, caught, pcm_src, mp3_src, codec, epState >>

Next ==
    \/ Start
    \/ SkipTurn
    \/ BeginTurn
    \/ WavTimeout
    \/ WavResponse
    \/ Mp3Timeout
    \/ Mp3Response
    \/ Finish

Spec == Init /\ [][Next]_vars

TypeOK ==
    /\ pc \in {"start", "loop", "wav_wait", "mp3_wait", "done", "failed"}
    /\ idx \in 1..(MaxTurns + 2)
    /\ using_mp3 \in BOOLEAN
    /\ Len(pcm_chunks) = Len(pcm_src)
    /\ Len(mp3_segments) = Len(mp3_src)
    /\ Len(responses) \in {Len(requests), Len(requests) - 1}

\* ------------------------------------------------------ two calls at once
\* Two callers, each in a thread of its own, run synthesize_episode_basic;
\* the interpreter runs one of them at a time and may switch at any point.
Calls == {1, 2}

\* Scripts of the two calls.
CallScripts ==
    { << [speaker |-> "guest", text |-> << " " >>],
         [speaker |-> "host", text |-> << "H", "i" >>] >>,
      << [speaker |-> "guest", text |-> << " ", "Y", "o", " " >>],
         [speaker |-> "host", text |-> << "H", "i" >>] >> }

InitTwo ==
    /\ script \in CallScripts
    /\ prefer_wav \in BOOLEAN
    /\ pause_ms = 500
    /\ JobLocalsInit
    /\ codec = CodecIdle
    /\ active = 1
    /\ parked \in { NewFrame(s, p, 0) : s \in CallScripts, p \in BOOLEAN }

\* Variant of the switch with the list of stream segments kept in one place
\* for both calls (a module-level list, or a mutable default argument).
Switch_SharedSegments ==
    /\ active' = 3 - active
    /\ parked' = CurrentFrame
    /\ script' = parked.script
    /\ prefer_wav' = parked.prefer_wav
    /\ pause_ms' = parked.pause_ms
    /\ pc' = parked.pc
    /\ idx' = parked.idx
    /\ pcm_chunks' = parked.pcm_chunks
    /\ mp3_segments' = mp3_segments
    /\ sr' = parked.sr
    /\ channels' = parked.channels
    /\ bps' = parked.bps
    /\ using_mp3' = parked.using_mp3
    /\ silence_frames' = parked.silence_frames
    /\ result' = parked.result
    /\ requests' = parked.requests
    /\ responses' = parked.responses
    /\ parser_calls' = parked.parser_calls
    /\ writer_calls' = parked.writer_calls
    /\ progress' = parked.progress
    /\ caught' = parked.caught
    /\ pcm_src' = parked.pcm_src
    /\ mp3_src' = parked.mp3_src
    /\ events' = parked.events
    /\ UNCHANGED << codec, attempt, final_audio >>

\* Lines 95-117: every name the function assigns is a local of the call, so
\* a switch of thread puts the whole frame aside and takes up the other one.
Switch ==
    /\ active' = 3 - active
    /\ parked' = CurrentFrame
    /\ script' = parked.script
    /\ prefer_wav' = parked.prefer_wav
    /\ pause_ms' = parked.pause_ms
    /\ pc' = parked.pc
    /\ idx' = parked.idx
    /\ pcm_chunks' = parked.pcm_chunks
    /\ mp3_segments' = parked.mp3_segments
    /\ sr' = parked.sr
    /\ channels' = parked.channels
    /\ bps' = parked.bps
    /\ using_mp3' = parked.using_mp3
    /\ silence_frames' = parked.silence_frames
    /\ result' = parked.result
    /\ requests' = parked.requests
    /\ responses' = parked.responses
    /\ parser_calls' = parked.parser_calls
    /\ writer_calls' = parked.writer_calls
    /\ progress' = parked.progress
    /\ caught' = parked.caught
    /\ pcm_src' = parked.pcm_src
    /\ mp3_src' = parked.mp3_src
    /\ events' = parked.events
    /\ UNCHANGED << codec, attempt, final_audio >>

NextTwo == Next \/ Switch

SpecTwo == InitTwo /\ [][NextTwo]_vars

\* ------------------------------------- the call as a function of its answers
RECURSIVE RunFrom(_, _, _, _, _, _)
RECURSIVE RunStream(_, _, _, _, _, _)

\* Lines 153-158: the stream request of turn i and what follows it.
RunStream(scr, pref, pause, i, st, rs) ==
    IF rs = << >> THEN NoResult
    ELSE LET r == Head(rs) IN
         IF r.kind = "timeout" THEN Raised("RequestException")
         ELSE IF r.status # HttpOk
         THEN Raised("BasicAudioError: ElevenLabs TTS failed")
         ELSE IF ~IsMp3(r.body)
         THEN Raised("BasicAudioError: Unexpected MP3 fallback bytes")
         ELSE RunFrom(scr, pref, pause, i + 1,
                      [st EXCEPT !.mp3 = Append(st.mp3, r.body)], Tail(rs))

\* Lines 118-176 from turn i on, with the answers rs still to come; NoResult
\* when the answers end before the call does.
RunFrom(scr, pref, pause, i, st, rs) ==
    IF i > Len(scr)
    THEN IF st.using THEN Returned(Concat(st.mp3), "mp3")
         ELSE IF st.fmt[1] = None THEN Raised("TypeError")
         ELSE Returned(BuildWav(Concat(st.pcm), st.fmt[1], st.fmt[2],
                                st.fmt[3]), "wav")
    ELSE IF Strip(scr[i].text) = << >>
    THEN RunFrom(scr, pref, pause, i + 1, st, rs)
    ELSE IF ~(pref /\ ~st.using)
    THEN RunStream(scr, pref, pause, i, st, rs)
    ELSE IF rs = << >> THEN NoResult
    ELSE LET r == Head(rs)
             p == ExtractWavPcm(r.body)
         IN  IF r.kind = "timeout" THEN Raised("RequestException")
             ELSE IF \/ r.status # HttpOk
                     \/ ~p.ok
                     \/ /\ st.fmt[1] # None
                        /\ << p.sample_rate, p.channels, p.bits >> # st.fmt
             THEN RunStream(scr, pref, pause, i,
                            [st EXCEPT !.using = TRUE], Tail(rs))
             ELSE LET sil == IF st.fmt[1] = None
                             THEN SilenceFor(p.sample_rate, p.channels,
                                             p.bits, pause)
                             ELSE st.sil
                  IN  RunFrom(scr, pref, pause, i + 1,
                              [st EXCEPT
                                 !.fmt = << p.sample_rate, p.channels,
                                            p.bits >>,
                                 !.sil = sil,
                                 !.pcm = IF i # Len(scr)
                                         THEN st.pcm \o << p.pcm, sil >>
                                         ELSE Append(st.pcm, p.pcm)],
                              Tail(rs))

\* synthesize_episode_basic(scr, ..., pause, prefer_wav = pref) run by
\* itself against a provider that gives the answers rs in this order.
RunAlone(scr, pref, pause, rs) ==
    IF scr = << >> THEN Raised("BasicAudioError: Empty script")
    ELSE RunFrom(scr, pref, pause, 1,
                 [pcm |-> << >>, mp3 |-> << >>,
                  fmt |-> << None, None, None >>,
                  using |-> FALSE, sil |-> << >>], rs)

\* ------------------------------------------------ writer / parser harness
\* Formats and payloads given to _build_wav; the result is given to
\* _extract_wav_pcm.
CodecRates == {4, 8000, 44100}
CodecFormats ==
    { << r, c, b >> : r \in CodecRates, c \in 1..2, b \in {8, 16, 24, 32} }

FrameSize(fmt) == fmt[2] * (fmt[3] \div 8)

\* A payload of n bytes with recognisable content.
PayloadOf(n, seed) == [i \in 1..n |-> (seed + 37 * i) % 256]

CodecInputs ==
    { [CodecIdle EXCEPT !.stage = "input",
                        !.pcm = PayloadOf(k * FrameSize(f), seed), !.fmt = f] :
      f \in CodecFormats, k \in 0..MaxFrames, seed \in {1, 200} }

\* One sub-chunk: tag, declared length, body.
Chunk(tag, body) == tag \o LE32(Len(body)) \o body

\* The 16-byte body of a PCM 'fmt ' sub-chunk.
FmtBody(fmt) ==
    LE16(1) \o LE16(fmt[2]) \o LE32(fmt[1])
    \o LE32((fmt[1] * fmt[2] * fmt[3]) \div 8)
    \o LE16((fmt[2] * fmt[3]) \div 8) \o LE16(fmt[3])

ChunkOf(kind, fmt, pcm) ==
    CASE kind = "fmt"   -> Chunk(TagFmt, FmtBody(fmt))
      [] kind = "LIST"  -> Chunk(TagLIST, << 9, 9 >>)
      [] kind = "LIST0" -> Chunk(TagLIST, << >>)
      [] kind = "data"  -> Chunk(TagData, pcm)

RECURSIVE ChunksOf(_, _, _)
ChunksOf(kinds, fmt, pcm) ==
    IF kinds = << >> THEN << >>
    ELSE ChunkOf(Head(kinds), fmt, pcm) \o ChunksOf(Tail(kinds), fmt, pcm)

\* 'RIFF' <size> 'WAVE' and the sub-chunks.
Riff(body) == TagRIFF \o LE32(4 + Len(body)) \o TagWAVE \o body

\* Orders of sub-chunks a response may come with.
Layouts ==
    { << "fmt", "data" >>,
      << "fmt", "LIST", "data" >>,
      << "LIST", "fmt", "data" >>,
      << "fmt", "LIST", "LIST0", "data" >>,
      << "fmt", "data", "LIST" >>,
      << "fmt", "LIST" >>,
      << "fmt" >> }

\* What can be wrong with a response: a wrong container tag, a wrong form
\* tag, a body cut after 20 bytes, a body that lost its last byte.
Damages == {"none", "riff", "wave", "short", "cut"}

Damaged(buf, d) ==
    CASE d = "none"  -> buf
      [] d = "riff"  -> [buf EXCEPT ![1] = 88]
      [] d = "wave"  -> [buf EXCEPT ![9] = 88]
      [] d = "short" -> Slice(buf, 0, 20)
      [] d = "cut"   -> Slice(buf, 0, Len(buf) - 1)

\* Buffers given to _extract_wav_pcm as they come from the provider.
CraftedInputs ==
    { [CodecIdle EXCEPT !.stage = "crafted", !.pcm = PayloadOf(n, 1),
                        !.fmt = f, !.chunks = l, !.damage = d,
                        !.buf = Damaged(Riff(ChunksOf(l, f, PayloadOf(n, 1))),
                                        d)] :
      f \in { FmtA, FmtB, << 44100, 2, 16 >> }, n \in 0..MaxFrames,
      l \in Layouts, d \in Damages }

\* Pause lengths, in milliseconds, the silence block is derived for.
SilencePauses == {0, 1, 999, 2000}

SilenceInputs ==
    { [CodecIdle EXCEPT !.stage = "silence_in", !.fmt = f, !.pause = d] :
      f \in CodecFormats, d \in SilencePauses }

InitCodec ==
    /\ script = << >>
    /\ prefer_wav = TRUE
    /\ pause_ms = 0
    /\ JobLocalsInit
    /\ codec \in CodecInputs \cup CraftedInputs \cup SilenceInputs
    /\ OneCall

\* _build_wav(pcm, sr, ch, bits)
CodecBuild ==
    /\ codec.stage = "input"
    /\ codec' = [codec EXCEPT !.stage = "built",
                   !.buf = BuildWav(codec.pcm, codec.fmt[1], codec.fmt[2],
                                    codec.fmt[3])]
    /\ UNCHANGED << jobArgs, jobState, epState >>

\* _extract_wav_pcm(buf)
CodecParse ==
    /\ codec.stage = "built"
    /\ codec' = [codec EXCEPT !.stage = "parsed",
                   !.out = ExtractWavPcm(codec.buf)]
    /\ UNCHANGED << jobArgs, jobState, epState >>

\* _extract_wav_pcm(buf) on a buffer of the provider
CodecScan ==
    /\ codec.stage = "crafted"
    /\ codec' = [codec EXCEPT !.stage = "scanned",
                   !.out = ExtractWavPcm(codec.buf)]
    /\ UNCHANGED << jobArgs, jobState, epState >>

\* Lines 135-138: the length of the silence block
CodecSilence ==
    /\ codec.stage = "silence_in"
    /\ codec' = [codec EXCEPT !.stage = "silenced",
                   !.len = SilenceLen(codec.fmt[1], codec.fmt[2],
                                      codec.fmt[3], codec.pause)]
    /\ UNCHANGED << jobArgs, jobState, epState >>

\* ---------------------------------------- the scan loop, one iteration a step
\* Buffers for the scan taken step by step.
ScanInputs == { [c EXCEPT !.stage = "scan_in"] : c \in CraftedInputs }

InitScan ==
    /\ script = << >>
    /\ prefer_wav = TRUE
    /\ pause_ms = 0
    /\ JobLocalsInit
    /\ codec \in ScanInputs
    /\ OneCall

\* What _extract_wav_pcm returns for a data sub-chunk found at offset at.
Found(payload, at) ==
    [ok |-> TRUE, reason |-> "", preview |-> << >>,
     pcm |-> Slice(payload, at + 8, at + 8 + U32(payload, at + 4)),
     sample_rate |-> U32(payload, 24), channels |-> U16(payload, 22),
     bits |-> U16(payload, 34)]

\* Lines 34-47: the header test, then the scan starts behind the form tag.
ScanBegin ==
    /\ codec.stage = "scan_in"
    /\ IF \/ Len(codec.buf) < MinWavLen
          \/ Slice(codec.buf, 0, 4) # TagRIFF
          \/ Slice(codec.buf, 8, 12) # TagWAVE
       THEN codec' = [codec EXCEPT !.stage = "scan_out",
                        !.out = ParseError("Unexpected WAV header",
                                           Hex(Slice(codec.buf, 0, 12)))]
       ELSE codec' = [codec EXCEPT !.stage = "scanning",
                        !.offset = FirstChunkOffset]
    /\ UNCHANGED << jobArgs, jobState, epState >>

\* Variant of the iteration that advances by the declared size alone.
ScanStep_SizeOnly ==
    /\ codec.stage = "scanning"
    /\ codec.offset < Len(codec.buf) - 8
    /\ LET chunk_id   == Slice(codec.buf, codec.offset, codec.offset + 4)
           chunk_size == U32(codec.buf, codec.offset + 4)
       IN  IF chunk_id = TagData
           THEN codec' = [codec EXCEPT !.stage = "scan_out",
                            !.out = Found(codec.buf, codec.offset)]
           ELSE codec' = [codec EXCEPT !.offset = codec.offset + chunk_size]
    /\ UNCHANGED << jobArgs, jobState, epState >>

\* Lines 48-55: one iteration of the while loop.
ScanStep ==
    /\ codec.stage = "scanning"
    /\ codec.offset < Len(codec.buf) - 8
    /\ LET chunk_id   == Slice(codec.buf, codec.offset, codec.offset + 4)
           chunk_size == U32(codec.buf, codec.offset + 4)
       IN  IF chunk_id = TagData
           THEN codec' = [codec EXCEPT !.stage = "scan_out",
                            !.out = Found(codec.buf, codec.offset)]
           ELSE codec' = [codec EXCEPT
                            !.offset = codec.offset + 8 + chunk_size]
    /\ UNCHANGED << jobArgs, jobState, epState >>

\* Lines 48 and 57-58: the loop ends without a data sub-chunk.
ScanEnd ==
    /\ codec.stage = "scanning"
    /\ ~(codec.offset < Len(codec.buf) - 8)
    /\ codec' = [codec EXCEPT !.stage = "scan_out",
                   !.out = ParseError("No data chunk found in WAV", << >>)]
    /\ UNCHANGED << jobArgs, jobState, epState >>

NextScan ==
    \/ ScanBegin
    \/ ScanStep
    \/ ScanEnd

\* The call runs to its end once started: nothing in the loop waits.
SpecScan == InitScan /\ [][NextScan]_vars /\ WF_vars(NextScan)

NextCodec ==
    \/ CodecBuild
    \/ CodecParse
    \/ CodecScan
    \/ CodecSilence

SpecCodec == InitCodec /\ [][NextCodec]_vars

\* ------------------------------------------------------------- observations
RECURSIVE NonEmptyFrom(_)
\* Indices, in script order, of the turns from i on whose stripped text is
\* not empty.
NonEmptyFrom(i) ==
    IF i > total_turns THEN << >>
    ELSE IF Strip(script[i].text) # << >>
         THEN << i >> \o NonEmptyFrom(i + 1)
         ELSE NonEmptyFrom(i + 1)

NonEmptyTurns == NonEmptyFrom(1)

IsTurn(t) == t # 0

\* The turns whose audio the returned buffer is built from.
TurnsInResult ==
    IF result.ext = "mp3" THEN mp3_src ELSE SelectSeq(pcm_src, IsTurn)

Last(q) == q[Len(q)]

\* Requests for a raw / a stream answer, in order.
IsWavReq(r) == r.want_wav
IsMp3Req(r) == ~r.want_wav
WavRequests == SelectSeq(requests, IsWavReq)
Mp3Requests == SelectSeq(requests, IsMp3Req)

RECURSIVE BodiesOf(_, _)
\* Bodies of the answers to the stream requests among the first n requests.
BodiesOf(n, acc) ==
    IF n = 0 THEN acc
    ELSE BodiesOf(n - 1,
                  IF ~requests[n].want_wav /\ n <= Len(responses)
                  THEN << responses[n].body >> \o acc ELSE acc)

StreamBodies == BodiesOf(Len(requests), << >>)

RECURSIVE TurnsOf(_)
TurnsOf(reqs) ==
    IF reqs = << >> THEN << >> ELSE << Head(reqs).turn >> \o TurnsOf(Tail(reqs))

\* --------------------------------------------------------------- claims
\* C1: a raw turn that parses but whose format differs from the job's format
\* fails the job: the mode stays Raw, the turn gets no stream request, and
\* nothing is returned or written.
C1_FormatMismatchIsFatal ==
    caught.reason = "Inconsistent audio format" =>
        /\ ~using_mp3
        /\ pc = "failed"
        /\ result.status = "error"
        /\ writer_calls = 0
        /\ \A i \in DOMAIN requests :
               requests[i].turn = caught.turn => requests[i].want_wav

\* C2: bytes returned by the job hold the audio of every turn with non-empty
\* text, in script order, also after a downgrade at a later turn.
C2_ResultHoldsEveryTurn ==
    result.status = "ok" => TurnsInResult = NonEmptyTurns

\* C3: the mode flag only goes from Raw to Stream, never back.
C3_ModeNeverBackToRaw == [][using_mp3 => using_mp3']_vars

C3_Witness ==
    /\ using_mp3
    /\ pc = "done"
    /\ caught.turn # 0
    /\ Len(mp3_segments) >= 2

\* C4: in Stream mode no step runs the raw parser, issues a raw request or
\* appends to the raw accumulation list, and the parser runs at most as
\* many times as the index of the turn whose raw attempt failed.
C4_NoRawWorkInStreamMode ==
    /\ [][using_mp3 =>
            /\ parser_calls' = parser_calls
            /\ pcm_chunks' = pcm_chunks
            /\ SelectSeq(requests', IsWavReq) = WavRequests]_vars
    /\ [](caught.turn # 0 => Len(parser_calls) <= caught.turn)

C4_Witness ==
    /\ using_mp3
    /\ caught.turn # 0
    /\ Len(parser_calls) = caught.turn
    /\ Len(mp3_src) >= 2
    /\ Last(mp3_src) > caught.turn

\* C5: parsing what the writer wrote gives back the payload and the format,
\* for every valid format and every payload of whole frames, the empty
\* payload included.
C5_RoundTrip ==
    codec.stage = "parsed" =>
        /\ codec.out.ok
        /\ codec.out.pcm = codec.pcm
        /\ << codec.out.sample_rate, codec.out.channels, codec.out.bits >>
             = codec.fmt

\* C6: a non-empty script whose turns are all empty after trimming fails with
\* "Empty script" and without a TTS call.
C6_AllEmptyIsEmptyScript ==
    (script # << >> /\ NonEmptyTurns = << >> /\ pc \in {"done", "failed"}) =>
        /\ result.error = "BasicAudioError: Empty script"
        /\ requests = << >>

RECURSIVE Intersperse(_, _)
\* chunks with sep between each consecutive pair.
Intersperse(chunks, sep) ==
    IF Len(chunks) <= 1 THEN chunks
    ELSE << Head(chunks), sep >> \o Intersperse(Tail(chunks), sep)

RECURSIVE PcmOfTurns(_)
\* The raw payloads among the first n elements of pcm_chunks.
PcmOfTurns(n) ==
    IF n = 0 THEN << >>
    ELSE IF pcm_src[n] # 0 THEN Append(PcmOfTurns(n - 1), pcm_chunks[n])
         ELSE PcmOfTurns(n - 1)

\* C7: a job that ends in Raw mode writes the turns' payloads in script order
\* with one silence block between consecutive non-empty turns and none after
\* the last one.
C7_SilenceOnlyBetweenTurns ==
    (result.status = "ok" /\ result.ext = "wav") =>
        /\ SelectSeq(pcm_src, IsTurn) = NonEmptyTurns
        /\ result.bytes =
             BuildWav(Concat(Intersperse(PcmOfTurns(Len(pcm_chunks)),
                                         silence_frames)),
                      sr, channels, bps)

\* C8: when the raw attempt of the first spoken turn fails, that turn is
\* asked again as stream, every later spoken turn is asked as stream only,
\* and the job returns the stream answers joined in script order under an
\* .mp3 name.
C8_DowngradeAtFirstTurn ==
    (result.status = "ok" /\ NonEmptyTurns # << >>
       /\ caught.turn = Head(NonEmptyTurns)) =>
        /\ TurnsOf(WavRequests) = << caught.turn >>
        /\ requests[1].want_wav
        /\ TurnsOf(Mp3Requests) = NonEmptyTurns
        /\ result.bytes = Concat(StreamBodies)
        /\ Len(StreamBodies) = Len(NonEmptyTurns)
        /\ pcm_chunks = << >>
        /\ result.ext = "mp3"

C8_Witness ==
    /\ result.status = "ok"
    /\ caught.turn = 1
    /\ caught.reason = "Unexpected WAV header"
    /\ Len(NonEmptyTurns) >= 2
    /\ result.ext = "mp3"

\* The signatures a stream answer may start with.
StartsWithStreamSignature(b) ==
    \/ (Len(b) >= 3 /\ SubSeq(b, 1, 3) = << 73, 68, 51 >>)
    \/ (Len(b) >= 2 /\ b[1] = 255 /\ b[2] \in {251, 243, 242})

\* C9: a stream request answered with a non-success status or with a body
\* without a stream signature fails the job at that turn: no further
\* request, nothing stored, nothing returned, and the job stays failed.
C9_StreamFailureIsFatal ==
    /\ [][(/\ pc = "mp3_wait"
           /\ Len(responses') = Len(responses) + 1
           /\ \/ Last(responses').kind # "http"
              \/ Last(responses').status # 200
              \/ ~StartsWithStreamSignature(Last(responses').body))
          => (/\ pc' = "failed"
              /\ result'.status = "error"
              /\ requests' = requests
              /\ mp3_segments' = mp3_segments
              /\ idx' = idx)]_vars
    /\ [][pc = "failed" => pc' = "failed" /\ result' = result]_vars

C9_Witness ==
    /\ pc = "failed"
    /\ using_mp3
    /\ Len(mp3_segments) >= 1
    /\ result.error = "BasicAudioError: Unexpected MP3 fallback bytes"

\* C10: a raw request that times out has the outcome of a failed raw request:
\* the job goes to Stream mode and asks the same turn again as stream.
C10_RawTimeoutDowngrades ==
    \A i \in DOMAIN responses :
        (requests[i].want_wav /\ responses[i].kind = "timeout") =>
            /\ using_mp3
            /\ result.error # "RequestException"
            /\ Len(requests) > i
            /\ requests[i + 1].turn = requests[i].turn
            /\ ~requests[i + 1].want_wav

\* ------------------------------ audio_streamlit.py: synthesize_episode
\* max_retries of _synthesize_single_line.
max_retries == 3

\* Answers to a request of _synthesize_single_line.
EpResponses(i) ==
    { Timeout, Http(500, NotAudio(i)),
      Http(HttpOk, Mp3Id3(i)),
      Http(HttpOk, NotAudio(i)) }

\* response.raise_for_status(): an HTTPError for a 4xx or 5xx status.
RaisesForStatus(r) == r.status >= 400

\* AudioSegment.from_file(..., format="mp3") of the decoding library: it
\* raises on a body that is no stream.
FromFileOk(body) == body # << >> /\ body[1] \in {73, 255}

\* time.sleep(2 ** attempt), in milliseconds.
Backoff(a) == 1000 * (2 ^ a)

\* Lines 183-192 with the locals of a fresh call.
InitEpisode ==
    /\ script \in Scripts
    /\ prefer_wav = FALSE
    /\ pause_ms \in Pauses
    /\ pc = "ep_start"
    /\ idx = 1
    /\ pcm_chunks = << >> /\ mp3_segments = << >>
    /\ sr = None /\ channels = None /\ bps = None
    /\ using_mp3 = FALSE
    /\ silence_frames = << >>
    /\ result = NoResult
    /\ requests = << >> /\ responses = << >>
    /\ parser_calls = << >> /\ writer_calls = 0
    /\ progress = << >>
    /\ caught = NoCatch
    /\ pcm_src = << >> /\ mp3_src = << >>
    /\ events = << >>
    /\ attempt = 0
    /\ final_audio = << >>
    /\ codec = CodecIdle
    /\ OneCall

basicState == << pcm_chunks, mp3_segments, sr, channels, bps, using_mp3,
                 silence_frames, parser_calls, writer_calls, caught, pcm_src,
                 mp3_src, codec, prefer_wav, otherCall >>

\* Lines 177-186: the two entry tests, then the first progress call.  The
\* import of the audio library at module load may have failed.
EpStart ==
    /\ pc = "ep_start"
    /\ \E audio_disabled \in BOOLEAN :
         IF audio_disabled
         THEN /\ Fail("Exception: Audio synthesis unavailable")
              /\ UNCHANGED << progress, events >>
         ELSE IF script = << >>
         THEN /\ Fail("Exception: No script provided")
              /\ UNCHANGED << progress, events >>
         ELSE /\ progress' = Append(progress, 0)
              /\ events' = Append(events, EvProgress(0, 0))
              /\ pc' = "ep_loop"
              /\ result' = result
    /\ UNCHANGED << basicState, script, pause_ms, idx, requests, responses,
                    epState >>

\* Lines 195-200.
EpSkipTurn ==
    /\ pc = "ep_loop"
    /\ idx <= total_turns
    /\ Strip(script[idx].text) = << >>
    /\ idx' = idx + 1
    /\ UNCHANGED << basicState, script, pause_ms, pc, requests, responses,
                    result, progress, events, epState >>

\* Lines 202-214 and 124-144: progress, then the first attempt's request.
\* The loop variable i of the source is idx - 1.
EpBeginTurn ==
    /\ pc = "ep_loop"
    /\ idx <= total_turns
    /\ Strip(script[idx].text) # << >>
    /\ progress' = Append(progress, Percent(idx, total_turns))
    /\ attempt' = 0
    /\ requests' = Append(requests, Request(idx, FALSE))
    /\ events' = events \o << EvProgress(idx, Percent(idx, total_turns)),
                              EvRequest(idx, FALSE) >>
    /\ pc' = "ep_wait"
    /\ UNCHANGED << basicState, script, pause_ms, idx, responses, result,
                    final_audio >>

\* Lines 229-233: the except clause of the turn.
EpTurnFails(error) ==
    /\ progress' = Append(progress, Percent(idx, total_turns))
    /\ events' = Append(events, EvProgress(idx, Percent(idx, total_turns)))
    /\ Fail(error)

\* Variant of the retry that compares the attempt with max_retries itself.
EpRequestError_OneMore ==
    /\ pc = "ep_wait"
    /\ \E r \in EpResponses(idx) :
        /\ r.kind = "timeout" \/ RaisesForStatus(r)
        /\ responses' = Append(responses, r)
        /\ IF attempt = max_retries
           THEN /\ EpTurnFails("Exception: Failed to synthesize line")
                /\ UNCHANGED << attempt, requests >>
           ELSE /\ attempt' = attempt + 1
                /\ requests' = Append(requests, Request(idx, FALSE))
                /\ events' = events \o << EvSleep(idx, Backoff(attempt)),
                                          EvRequest(idx, FALSE) >>
                /\ UNCHANGED << pc, result, progress >>
    /\ UNCHANGED << basicState, script, pause_ms, idx, final_audio >>

\* Lines 145-151: a RequestException (a timeout, or the HTTPError of
\* raise_for_status) is retried with a growing sleep until the last attempt.
EpRequestError ==
    /\ pc = "ep_wait"
    /\ \E r \in EpResponses(idx) :
        /\ r.kind = "timeout" \/ RaisesForStatus(r)
        /\ responses' = Append(responses, r)
        /\ IF attempt = max_retries - 1
           THEN /\ EpTurnFails("Exception: Failed to synthesize line")
                /\ UNCHANGED << attempt, requests >>
           ELSE /\ attempt' = attempt + 1
                /\ requests' = Append(requests, Request(idx, FALSE))
                /\ events' = events \o << EvSleep(idx, Backoff(attempt)),
                                          EvRequest(idx, FALSE) >>
                /\ UNCHANGED << pc, result, progress >>
    /\ UNCHANGED << basicState, script, pause_ms, idx, final_audio >>

\* Lines 146 and 217-227: the body is decoded and added to the track, with
\* a pause unless the turn is the last of the script, then a short sleep.
EpResponseOk ==
    /\ pc = "ep_wait"
    /\ \E r \in EpResponses(idx) :
        /\ r.kind = "http" /\ ~RaisesForStatus(r)
        /\ responses' = Append(responses, r)
        /\ IF FromFileOk(r.body)
           THEN /\ final_audio' =
                     IF idx - 1 < total_turns - 1
                     THEN final_audio \o << idx, 0 >>
                     ELSE Append(final_audio, idx)
                /\ events' = Append(events, EvSleep(idx, 300))
                /\ idx' = idx + 1
                /\ pc' = "ep_loop"
                /\ UNCHANGED << result, progress >>
           ELSE /\ EpTurnFails("Exception: Failed to synthesize line")
                /\ UNCHANGED << idx, final_audio >>
    /\ UNCHANGED << basicState, script, pause_ms, requests, attempt >>

\* Lines 235-258: the track is exported and returned.
EpFinish ==
    /\ pc = "ep_loop"
    /\ idx > total_turns
    /\ progress' = progress \o << 95, 100 >>
    /\ events' = events \o << EvProgress(0, 95), EvProgress(0, 100) >>
    /\ result' = Returned(final_audio, "mp3")
    /\ pc' = "done"
    /\ UNCHANGED << basicState, script, pause_ms, idx, requests, responses,
                    epState >>

NextEpisode ==
    \/ EpStart
    \/ EpSkipTurn
    \/ EpBeginTurn
    \/ EpRequestError
    \/ EpResponseOk
    \/ EpFinish

SpecEpisode == InitEpisode /\ [][NextEpisode]_vars

\* Both entry points: a job is a call of synthesize_episode_basic or of
\* synthesize_episode.
InitAll == Init \/ InitEpisode

NextAll == Next \/ NextEpisode

SpecAll == InitAll /\ [][NextAll]_vars

\* ------------------------------------------------------- claims C11 - C20
\* C11: the percents given to the progress callback in one job never
\* decrease and lie in 0..100, whatever the script and the answers, in
\* synthesize_episode_basic and in synthesize_episode.
C11_ProgressMonotone ==
    \A j \in DOMAIN progress :
        /\ progress[j] \in 0..100
        /\ j > 1 => progress[j - 1] <= progress[j]

C11_Witness ==
    /\ pc = "done"
    /\ caught.turn = 2
    /\ Len(progress) >= 5
    /\ progress[1] < progress[2]

\* C12: a job that returns has given percent 0 to the callback before any
\* request, and percent 100 exactly once, as its last call.
C12_ZeroFirstHundredLast ==
    result.status = "ok" =>
        /\ events # << >>
        /\ Head(events) = EvProgress(Head(events).turn, 0)
        /\ Last(progress) = 100
        /\ Cardinality({ j \in DOMAIN progress : progress[j] = 100 }) = 1

\* Position of turn t among the turns with non-empty text.
RankOf(t) == Cardinality({ j \in 1..t : Strip(script[j].text) # << >> })

\* C13: a script gives the TTS calls and the percents of the script with
\* its empty turns removed: the call made for the k-th spoken turn of K
\* comes with percent floor((k-1)/K * 90).
C13_SkipIsIdempotent ==
    LET K     == Len(NonEmptyTurns)
        calls == [ j \in 1..Len(requests) |->
                     ((RankOf(requests[j].turn) - 1) * 90) \div K ]
    IN  pc \in {"loop", "wav_wait", "mp3_wait", "done", "failed"} =>
            progress = IF result.status = "ok"
                       THEN calls \o << 95, 100 >> ELSE calls

\* C14: the first request of turn i of n comes right after the progress
\* call with percent floor((i-1)/n * 90) of that turn.
C14_ProgressBeforeFirstCall ==
    \A p \in DOMAIN events :
        (/\ events[p].kind = "request"
         /\ \A q \in 1..(p - 1) :
               ~(events[q].kind = "request" /\ events[q].turn = events[p].turn))
        => /\ p > 1
           /\ events[p - 1].kind = "progress"
           /\ events[p - 1].turn = events[p].turn
           /\ events[p - 1].n = ((events[p].turn - 1) * 90) \div total_turns

C14_Witness ==
    /\ pc = "done"
    /\ Len(NonEmptyTurns) = 2
    /\ Head(NonEmptyTurns) = 2
    /\ Len(requests) >= 3

\* round(a / b) for a >= 0, b > 0 (no input of the model falls on a half).
RoundDiv(a, b) == (2 * a + b) \div (2 * b)

\* C15: the silence block is round(sampleRateHz * pause_ms / 1000) frames of
\* channelCount * bitsPerSample / 8 bytes.
C15_SilenceSizing ==
    codec.stage = "silenced" =>
        codec.len = RoundDiv(codec.fmt[1] * codec.pause, 1000)
                    * codec.fmt[2] * (codec.fmt[3] \div 8)

\* The buffer starts with 'RIFF' <size> 'WAVE' and is at least 44 bytes long.
HeaderFine(b) ==
    /\ Len(b) >= 44
    /\ SubSeq(b, 1, 4) = << 82, 73, 70, 70 >>
    /\ SubSeq(b, 9, 12) = << 87, 65, 86, 69 >>

InChunks(kind) == \E i \in DOMAIN codec.chunks : codec.chunks[i] = kind

\* C16: whatever sub-chunks precede the data sub-chunk of a buffer with valid
\* tags, the parser returns the bytes of the data sub-chunk.
C16_DataFoundBehindOtherChunks ==
    (codec.stage = "scanned" /\ codec.damage = "none"
       /\ HeaderFine(codec.buf) /\ InChunks("data")) =>
        /\ codec.out.ok
        /\ codec.out.pcm = codec.pcm

\* C17 as claimed: the format returned is the one stored in the 'fmt '
\* sub-chunk, wherever that sub-chunk lies.
C17_FormatFromFmtChunkAnywhere ==
    (codec.stage = "scanned" /\ codec.out.ok /\ InChunks("fmt")) =>
        << codec.out.sample_rate, codec.out.channels, codec.out.bits >>
          = codec.fmt

\* C17 amended: the format returned is the one stored in the 'fmt '
\* sub-chunk when that sub-chunk is the first one of the buffer.
C17_FormatFromLeadingFmtChunk ==
    (codec.stage = "scanned" /\ codec.out.ok /\ codec.chunks # << >>
       /\ Head(codec.chunks) = "fmt") =>
        << codec.out.sample_rate, codec.out.channels, codec.out.bits >>
          = codec.fmt

C17_Witness ==
    /\ codec.stage = "scanned"
    /\ codec.out.ok
    /\ codec.chunks = << "fmt", "LIST", "data" >>
    /\ codec.fmt = << 44100, 2, 16 >>
    /\ codec.out.sample_rate = 44100

\* C18: a buffer shorter than 44 bytes, or without 'RIFF' at 0..3 or 'WAVE'
\* at 8..11, is refused with the hex of its first 12 bytes; a buffer
\* without data sub-chunk is refused too; no payload is returned.
C18_ParseFailures ==
    codec.stage = "scanned" =>
        /\ ~HeaderFine(codec.buf) =>
             /\ ~codec.out.ok
             /\ codec.out.pcm = << >>
             /\ codec.out.reason = "Unexpected WAV header"
             /\ codec.out.preview =
                  Hex(SubSeq(codec.buf, 1,
                             IF Len(codec.buf) < 12 THEN Len(codec.buf) ELSE 12))
        /\ (HeaderFine(codec.buf) /\ ~InChunks("data")) =>
             /\ ~codec.out.ok
             /\ codec.out.pcm = << >>
             /\ codec.out.reason = "No data chunk found in WAV"

C18_Witness ==
    /\ codec.stage = "scanned"
    /\ codec.damage = "wave"
    /\ codec.chunks = << "fmt", "LIST", "data" >>
    /\ Len(codec.buf) >= 44
    /\ ~codec.out.ok
    /\ Len(codec.out.preview) = 24

\* C19: while the job is in raw mode, the accumulated raw payload is a whole
\* number of frames of the job's format.
C19_WholeFrames ==
    (sr # None /\ ~using_mp3) =>
        Len(Concat(pcm_chunks)) % (channels * (bps \div 8)) = 0

\* C20: an answer whose status is not 2xx, or whose body is shorter than the
\* shortest header of either format (the 4 bytes of an MPEG frame header), is
\* a failure of the TTS client: a downgrade of the turn in raw mode, the end
\* of the job in stream mode.
C20_ShortBodyIsTtsFailure ==
    \A j \in DOMAIN responses :
        LET r == responses[j]
            q == requests[j]
        IN  (r.kind = "http"
               /\ (r.status \notin 200..299 \/ Len(r.body) < 4)) =>
                IF q.want_wav
                THEN caught = [turn |-> q.turn,
                               reason |-> "ElevenLabs TTS failed"]
                ELSE /\ result.status = "error"
                     /\ result.error = "BasicAudioError: ElevenLabs TTS failed"

\* The little-endian number held by the n bytes of b after offset off.
RECURSIVE LittleEndian(_, _, _)
LittleEndian(b, off, n) ==
    IF n = 0 THEN 0 ELSE b[off + 1] + 256 * LittleEndian(b, off + 1, n - 1)

\* C21: the writer returns 44 header bytes and the payload unchanged; the
\* container size is 36 + len(payload), the data size len(payload), the
\* format fields are the given format, and the 16-byte 'fmt ' sub-chunk and
\* the 'data' sub-chunk are the only sub-chunks.
C21_WriterLayout ==
    codec.stage \in {"built", "parsed"} =>
        LET b == codec.buf
            n == Len(codec.pcm)
        IN  /\ Len(b) = 44 + n
            /\ SubSeq(b, 45, Len(b)) = codec.pcm
            /\ SubSeq(b, 1, 4) = << 82, 73, 70, 70 >>
            /\ LittleEndian(b, 4, 4) = 36 + n
            /\ SubSeq(b, 9, 12) = << 87, 65, 86, 69 >>
            /\ SubSeq(b, 13, 16) = << 102, 109, 116, 32 >>
            /\ LittleEndian(b, 16, 4) = 16
            /\ LittleEndian(b, 20, 2) = 1
            /\ LittleEndian(b, 22, 2) = codec.fmt[2]
            /\ LittleEndian(b, 24, 4) = codec.fmt[1]
            /\ LittleEndian(b, 34, 2) = codec.fmt[3]
            /\ SubSeq(b, 37, 40) = << 100, 97, 116, 97 >>
            /\ LittleEndian(b, 40, 4) = n

C21_Witness ==
    /\ codec.stage = "built"
    /\ codec.fmt = << 44100, 2, 16 >>
    /\ Len(codec.pcm) = 4
    /\ Len(codec.buf) = 48

\* C22: a returned name ends in wav exactly when the job ended in raw mode,
\* and the bytes are then a raw container; it ends in mp3 exactly when the
\* job ended in stream mode, and the bytes are then the stream segments one
\* after the other.
C22_ExtensionMatchesMode ==
    result.status = "ok" =>
        /\ result.ext \in {"wav", "mp3"}
        /\ (result.ext = "wav") <=> ~using_mp3
        /\ (result.ext = "mp3") <=> using_mp3
        /\ result.ext = "wav" =>
             /\ Len(result.bytes) >= 44
             /\ SubSeq(result.bytes, 1, 4) = << 82, 73, 70, 70 >>
             /\ SubSeq(result.bytes, 9, 12) = << 87, 65, 86, 69 >>
             /\ SubSeq(result.bytes, 45, Len(result.bytes))
                  = Concat(pcm_chunks)
        /\ result.ext = "mp3" =>
             /\ mp3_segments # << >>
             /\ result.bytes = Concat(mp3_segments)
             /\ \A k \in DOMAIN mp3_segments :
                    StartsWithStreamSignature(mp3_segments[k])

C22_Witness ==
    /\ result.status = "ok"
    /\ result.ext = "mp3"
    /\ using_mp3
    /\ pcm_chunks # << >>
    /\ Len(mp3_segments) = 2

\* The 0-based attempt a request is within its turn.
AttemptOf(j) ==
    Cardinality({ i \in 1..(j - 1) : requests[i].turn = requests[j].turn })

\* The answer is one the caller of the provider takes as a failure.
FailedAnswer(r) == r.kind = "timeout" \/ r.status >= 400

\* C23: only a network-layer error (a timeout) is retried; an answer with a
\* status that is not 2xx fails the line after that single request.
C23_OnlyTransientRetried ==
    \A j \in DOMAIN responses :
        (responses[j].kind = "http" /\ responses[j].status \notin 200..299) =>
            /\ Len(requests) = j
            /\ AttemptOf(j) = 0
            /\ pc = "failed"

\* The place in the event log of the k-th request.
ReqPos(k) ==
    CHOOSE p \in DOMAIN events :
        /\ events[p].kind = "request"
        /\ Cardinality({ q \in 1..p : events[q].kind = "request" }) = k

\* C28: a line gets at most max_retries requests; a failed attempt a that is
\* not the last is followed by a sleep of 2^a seconds and the next request,
\* a successful answer by no further request of the line, and the last
\* failed attempt by the failure of the line.
C28_BoundedRetry ==
    /\ \A j \in DOMAIN requests : AttemptOf(j) < max_retries
    /\ \A j \in DOMAIN responses :
         LET a == AttemptOf(j)
             t == requests[j].turn
         IN  /\ ~FailedAnswer(responses[j]) =>
                  ~(j + 1 \in DOMAIN requests /\ requests[j + 1].turn = t)
             /\ (FailedAnswer(responses[j]) /\ a < max_retries - 1) =>
                  /\ j + 1 \in DOMAIN requests
                  /\ requests[j + 1].turn = t
                  /\ events[ReqPos(j + 1) - 1]
                       = [kind |-> "sleep", turn |-> t, n |-> 1000 * (2 ^ a)]
             /\ (FailedAnswer(responses[j]) /\ a = max_retries - 1) =>
                  /\ Len(requests) = j
                  /\ pc = "failed"
                  /\ result.status = "error"

C28_Witness ==
    /\ pc = "done"
    /\ \E j \in DOMAIN responses :
         /\ AttemptOf(j) = 2
         /\ ~FailedAnswer(responses[j])
         /\ FailedAnswer(responses[j - 1])
         /\ responses[j - 2].kind = "timeout"

\* C25: a job called with prefer_wav = False whose stream answers are all
\* valid asks for streams only and returns the segments one after the other
\* under an mp3 name, without a call of the raw writer.
C25_StreamPreferenceReturnsStream ==
    (/\ ~prefer_wav
     /\ pc \in {"done", "failed"}
     /\ NonEmptyTurns # << >>
     /\ \A j \in DOMAIN responses :
            /\ responses[j].kind = "http"
            /\ responses[j].status = 200
            /\ StartsWithStreamSignature(responses[j].body)) =>
        /\ \A j \in DOMAIN requests : ~requests[j].want_wav
        /\ TurnsOf(requests) = NonEmptyTurns
        /\ result.status = "ok"
        /\ result.ext = "mp3"
        /\ result.bytes = Concat([j \in DOMAIN responses |-> responses[j].body])
        /\ writer_calls = 0

\* C26: a payload the parser returns has the length its data sub-chunk
\* declares, also when the buffer ends before the declared length.
C26_DeclaredLengthOrFailure ==
    (codec.stage = "scanned" /\ codec.out.ok) =>
        Len(codec.out.pcm) = Len(codec.pcm)

\* The number of requests of turn t.
CallsOf(t) == Cardinality({ j \in DOMAIN requests : requests[j].turn = t })

\* C27: requests are sent one at a time and in script order; a turn gets a
\* second request (a stream one after a raw one) only where the downgrade
\* happens, so a job of k spoken turns sends at most k + 1 requests.
C27_SequentialCalls ==
    /\ Len(requests) <= Len(responses) + 1
    /\ Len(responses) <= Len(requests)
    /\ \A j \in DOMAIN requests :
         /\ Strip(script[requests[j].turn].text) # << >>
         /\ j > 1 => requests[j - 1].turn <= requests[j].turn
         /\ (j > 1 /\ requests[j - 1].turn = requests[j].turn) =>
              /\ requests[j - 1].want_wav
              /\ ~requests[j].want_wav
              /\ caught.turn = requests[j].turn
    /\ \A t \in DOMAIN script :
         /\ CallsOf(t) <= 2
         /\ (CallsOf(t) = 2) => caught.turn = t
         /\ (pc = "done" /\ Strip(script[t].text) # << >>) => CallsOf(t) >= 1
    /\ Len(requests) <= Len(NonEmptyTurns) + 1

C27_Witness ==
    /\ pc = "done"
    /\ Len(NonEmptyTurns) = 2
    /\ Len(requests) = 3
    /\ caught.turn = Last(NonEmptyTurns)

\* C29: every iteration of the scan moves the offset forward by 8 plus the
\* declared size, so by 8 at least, and the parser ends with a payload or
\* with a parse error.
C29_ScanTerminates ==
    /\ [][(codec.stage = "scanning" /\ codec'.stage = "scanning") =>
             /\ codec'.offset
                  = codec.offset + 8 + LittleEndian(codec.buf,
                                                    codec.offset + 4, 4)
             /\ codec'.offset >= codec.offset + 8]_vars
    /\ <>(codec.stage = "scan_out")
    /\ [](codec.stage = "scan_out" =>
            /\ codec.out.ok \/ codec.out.reason # ""
            /\ codec.out = ExtractWavPcm(codec.buf))

C29_Witness ==
    /\ codec.stage = "scan_out"
    /\ codec.chunks = << "fmt", "LIST", "LIST0", "data" >>
    /\ codec.damage = "none"
    /\ codec.offset = 54
    /\ codec.out.ok

\* The frame of call j, running or put aside.
FrameOf(j) == IF active = j THEN CurrentFrame ELSE parked

\* C24: of two calls run with their steps interleaved, each one's mode flag,
\* format, silence block and buffers change only in that call's own steps,
\* and what a call returns or raises is what it would alone with the same
\* answers from the provider.
C24_CallsShareNothing ==
    /\ [][\A j \in Calls :
            FrameOf(j)' # FrameOf(j) => (active = j /\ active' = j)]_vars
    /\ [](\A j \in Calls :
            FrameOf(j).pc \in {"done", "failed"} =>
                FrameOf(j).result
                  = RunAlone(FrameOf(j).script, FrameOf(j).prefer_wav,
                             FrameOf(j).pause_ms, FrameOf(j).responses))

C24_Witness ==
    /\ FrameOf(1).pc = "done"
    /\ FrameOf(2).pc = "done"
    /\ FrameOf(1).result.ext = "mp3"
    /\ FrameOf(2).result.ext = "wav"
    /\ Len(FrameOf(1).requests) = 3
    /\ Len(FrameOf(2).requests) = 2
    /\ \E k \in 1..(Len(FrameOf(1).events) - 1) :
           /\ FrameOf(1).events[k].kind = "request"
           /\ FrameOf(1).events[k + 1].kind = "progress"

====
